---- MODULE Spec2Model ----
(***************************************************************************)
(* Model of TTS/tts/models/xtts.py: the inference orchestration of Xtts.   *)
(*                                                                         *)
(*   SpecCond    get_conditioning_latents                                  *)
(*   SpecInfer   inference_with_config / full_inference / inference        *)
(*   SpecStream  inference_stream with handle_chunks                       *)
(*                                                                         *)
(* The networks (tokenizer, GPT, speaker encoder, HiFi-GAN) are outside    *)
(* the file; they appear as the outcomes the orchestration sees.           *)
(***************************************************************************)
EXTENDS Integers, Sequences, FiniteSets, TLC

VARIABLES
    pc,           \* where the current call is: "idle", "running", "returned", "raised"
    args,         \* the arguments of the call
    calls,        \* collaborator calls made by the call so far, in order
    ret,          \* what the call returned (or the error it raised)
    gen_left,     \* pairs the GPT generator will still yield before StopIteration
    vocoder_ctx,  \* TRUE when a HiFi-GAN sample also depends on the following latent
    last_tokens,  \* inference_stream: last_tokens
    all_latents,  \* inference_stream: all_latents
    wav_gen_prev, \* inference_stream: wav_gen_prev (None or a waveform)
    wav_overlap,  \* inference_stream: wav_overlap (None or a waveform)
    is_end,       \* inference_stream: is_end
    chunks,       \* the chunks inference_stream has yielded, in order
    raws,         \* history: each yielded chunk as sliced from wav_gen, before blending
    decodes,      \* history: wav_gen at each yield
    emit_at       \* history: for each yield, the pulls done so far and whether at exhaustion

vars == <<pc, args, calls, ret, gen_left, vocoder_ctx, last_tokens, all_latents,
          wav_gen_prev, wav_overlap, is_end, chunks, raws, decodes, emit_at>>

streamVars == <<gen_left, vocoder_ctx, last_tokens, all_latents, wav_gen_prev,
                wav_overlap, is_end, chunks, raws, decodes, emit_at>>

(***************************************************************************)
(* Bounds of the model.                                                    *)
(***************************************************************************)
MaxCodes == 11        \* longest gpt_codes sequence returned by gpt.generate
MaxRefs == 2          \* most reference clips in one call
MaxClipSecs == 3      \* longest reference clip, in seconds
NumSpeakers == 2      \* distinct reference recordings
MaxGen == 4           \* most pairs the streaming generator yields
MaxChunkSize == 3     \* largest stream_chunk_size
MaxOverlap == 3       \* largest overlap_wav_len
SamplesPerLatent == 2 \* waveform samples HiFi-GAN produces per latent
MaxPathLen == 2       \* longest path string, in characters
MaxPadLen == 4        \* longest waveform given to pad_or_truncate
MaxCkptKeys == 2      \* most entries of a checkpoint state dict
MaxBatch == 2         \* largest gpt_batch_size

(***************************************************************************)
(* Program constants.                                                      *)
(***************************************************************************)
gpt_sample_rate == 22050   \* Hz, the rate of the style-latent path
diffusion_sample_rate == 24000   \* Hz, the rate of the diffusion conditioning path
silence_token == 83
gpt_max_text_tokens == 402

\* config.languages, and the tags a caller may pass ("xx" is not configured).
Languages == {"en", "es"}
LanguageTags == {"en", "xx"}

RECURSIVE Factorial(_)
Factorial(n) == IF n <= 1 THEN 1 ELSE n * Factorial(n - 1)

RECURSIVE SumSeq(_)
SumSeq(s) == IF s = <<>> THEN 0 ELSE Head(s) + SumSeq(Tail(s))

RECURSIVE Flatten(_)
Flatten(ss) == IF ss = <<>> THEN <<>> ELSE Head(ss) \o Flatten(Tail(ss))

Range(f) == {f[i] : i \in DOMAIN f}

SeqsUpTo(S, n) == UNION {[1..m -> S] : m \in 0..n}

\* Python's None / a value.
None == [some |-> FALSE, val |-> <<>>]
Some(v) == [some |-> TRUE, val |-> v]

(***************************************************************************)
(* Python slicing t[a:b] of a 1-D tensor: negative indices count from the  *)
(* end, out-of-range indices are clamped, an empty range gives an empty    *)
(* tensor.  Indices are 0-based as in the source; sequences are 1-based.   *)
(***************************************************************************)
ClampIndex(i, L) ==
    IF i < 0 THEN (IF i + L < 0 THEN 0 ELSE i + L)
    ELSE (IF i > L THEN L ELSE i)

PySlice(t, a, b) ==
    LET lo == ClampIndex(a, Len(t))
        hi == ClampIndex(b, Len(t))
    IN  IF lo >= hi THEN <<>> ELSE SubSeq(t, lo + 1, hi)

PySliceTo(t, b) == PySlice(t, 0, b)          \* t[:b]
PySliceFrom(t, a) == PySlice(t, a, Len(t))   \* t[a:]

(***************************************************************************)
(* get_conditioning_latents.  A reference clip is a recording (spk) of a   *)
(* duration in seconds at a sample rate.  Audio is held in frames of       *)
(* gpt_sample_rate consecutive samples: one frame per second at 22050 Hz,  *)
(* two at 44100 Hz.  Frame <<spk, k, sr>> is the k-th frame of the         *)
(* recording spk as stored at rate sr.                                     *)
(***************************************************************************)
SampleRates == {gpt_sample_rate, 2 * gpt_sample_rate}
Clips == [spk : 1..NumSpeakers, secs : 1..MaxClipSecs, sr : SampleRates]

\* a number of samples, in frames
SamplesToFrames(n) == n \div gpt_sample_rate

\* torchaudio.load: the audio and its sample rate
LoadAudio(clip) == [k \in 1..SamplesToFrames(clip.secs * clip.sr) |-> <<clip.spk, k, clip.sr>>]

\* ceil(a / b) for b > 0
CeilDiv(a, b) == (a + b - 1) \div b

\* torchaudio.functional.resample(audio, orig_freq, new_freq): the signal is
\* read as one sampled at orig_freq, whatever rate it was recorded at; the
\* result has ceil(new_freq * n / orig_freq) samples and its j-th sample is
\* the signal at the time of that sample.
Resample(audio, orig_freq, new_freq) ==
    [j \in 1..CeilDiv(new_freq * Len(audio), orig_freq) |->
        audio[((j - 1) * orig_freq) \div new_freq + 1]]

\* The speaker encoder (hifigan_decoder.speaker_encoder) on a clip's audio: a
\* value that depends on the recording and on how many seconds of it are heard
\* (the audio is resampled from its own rate sr to 16 kHz first).  Values
\* are multiples of EmbScale so that the mean of up to MaxRefs of them is exact.
EmbScale == Factorial(MaxRefs)
get_speaker_embedding(audio, sr) ==
    IF audio = <<>> THEN 0
    ELSE EmbScale * (10 * audio[1][1] + (Len(audio) * gpt_sample_rate) \div sr)

\* gpt.get_style_emb on the mel of the audio: identified by the audio it is given.
get_gpt_cond_latents(audio, sr, length) ==
    LET audio_22k == IF sr # gpt_sample_rate THEN Resample(audio, sr, gpt_sample_rate)
                     ELSE audio
    IN  PySliceTo(audio_22k, SamplesToFrames(gpt_sample_rate * length))

\* speaker_embedding.mean(dim=0) of the stacked per-clip embeddings
MeanEmbedding_Weighted(embs, audios) ==
    SumSeq([i \in 1..Len(embs) |-> embs[i] * Len(audios[i])])
        \div SumSeq([i \in 1..Len(audios) |-> Len(audios[i])])

MeanEmbedding(embs, audios) == SumSeq(embs) \div Len(embs)

get_conditioning_latents(audio_paths, gpt_cond_len, max_ref_length) ==
    LET audios == [i \in 1..Len(audio_paths) |->
                      PySliceTo(LoadAudio(audio_paths[i]),
                                SamplesToFrames(audio_paths[i].sr * max_ref_length))]
        embs == [i \in 1..Len(audios) |-> get_speaker_embedding(audios[i], audio_paths[i].sr)]
        \* sr is the loop variable after the loop: the rate of the last clip
        sr == audio_paths[Len(audio_paths)].sr
    IN  IF audios = <<>>
        THEN \* torch.cat of an empty list raises
             [status |-> "RuntimeError", gpt_cond_latents |-> <<>>, speaker_embedding |-> 0]
        ELSE [status |-> "ok",
              gpt_cond_latents |-> get_gpt_cond_latents(Flatten(audios), sr, gpt_cond_len),
              speaker_embedding |-> MeanEmbedding(embs, audios)]

(***************************************************************************)
(* audio_path given as one path string.  A string is its sequence of       *)
(* characters; `files` are the paths at which an audio file exists.        *)
(***************************************************************************)
PathChars == {"a", "b"}
PathStrings == SeqsUpTo(PathChars, MaxPathLen) \ {<<>>}

\* the recording stored at a path
FileClip(path) == [spk |-> (IF path[1] = "a" THEN 1 ELSE 2), secs |-> 1, sr |-> gpt_sample_rate]

\* if not isinstance(audio_path, list): audio_paths = list(audio_path)
\* list() of a string is the list of its characters, each a string of length one.
AudioPathsOfString(audio_path) == [i \in 1..Len(audio_path) |-> <<audio_path[i]>>]

\* the for loop over audio_paths as far as torchaudio.load succeeds
RECURSIVE LoadedPrefix(_, _)
LoadedPrefix(audio_paths, files) ==
    IF audio_paths = <<>> \/ Head(audio_paths) \notin files THEN <<>>
    ELSE <<Head(audio_paths)>> \o LoadedPrefix(Tail(audio_paths), files)

\* get_conditioning_latents(audio_path=<a string>, ...)
get_conditioning_latents_str(audio_path, files, gpt_cond_len, max_ref_length) ==
    LET audio_paths == AudioPathsOfString(audio_path)
        loaded == LoadedPrefix(audio_paths, files)
        r == get_conditioning_latents([i \in 1..Len(audio_paths) |-> FileClip(audio_paths[i])],
                                      gpt_cond_len, max_ref_length)
    IN  IF loaded # audio_paths
        THEN \* torchaudio.load raises on a path that is no file
             [status |-> "FileNotFoundError", gpt_cond_latents |-> <<>>,
              speaker_embedding |-> 0, loaded |-> loaded]
        ELSE [status |-> r.status, gpt_cond_latents |-> r.gpt_cond_latents,
              speaker_embedding |-> r.speaker_embedding, loaded |-> loaded]

(***************************************************************************)
(* pad_or_truncate and the chunking of get_diffusion_cond_latents.         *)
(***************************************************************************)
SampleVals == {1, 2}
Zeros(n) == [i \in 1..n |-> 0]

\* pad_or_truncate(t, length), t a 1-D tensor and length >= 0
pad_or_truncate_KeepTail(t, length) ==
    IF Len(t) = length THEN t
    ELSE IF Len(t) < length THEN Zeros(length - Len(t)) \o t
    ELSE PySliceFrom(t, Len(t) - length)

pad_or_truncate(t, length) ==
    IF Len(t) = length THEN t
    ELSE IF Len(t) < length THEN t \o Zeros(length - Len(t))
    ELSE PySliceTo(t, length)

\* get_diffusion_cond_latents: the chunks handed to wav_to_univnet_mel, for a
\* chunk size of chunk_size (CHUNK_SIZE = 102400 in the source)
DiffusionCondChunks(audio_24k, chunk_size) ==
    [c \in 1..CeilDiv(Len(audio_24k), chunk_size) |->
        pad_or_truncate(PySlice(audio_24k, (c - 1) * chunk_size, c * chunk_size), chunk_size)]

\* get_diffusion_cond_latents(audio, sr).  The method never returns: torch.stack
\* of an empty list raises, and self.diffusion_decoder is an attribute the model
\* never creates.  diffusion_conds is the list built by the loop before that.
get_diffusion_cond_latents(audio, sr, chunk_size) ==
    LET audio_24k == Resample(audio, sr, diffusion_sample_rate)
        diffusion_conds == DiffusionCondChunks(audio_24k, chunk_size)
    IN  [status |-> IF diffusion_conds = <<>> THEN "RuntimeError" ELSE "AttributeError",
         calls |-> [c \in 1..Len(diffusion_conds) |-> "wav_to_univnet_mel"],
         diffusion_conds |-> diffusion_conds]

(***************************************************************************)
(* Xtts.get_compatible_checkpoint_state_dict.  A key is the sequence of    *)
(* its dot-separated components ("xtts.gpt.w" is <<"xtts", "gpt", "w">>);  *)
(* a checkpoint is a Python dict: a sequence of entries in insertion      *)
(* order, with distinct keys.  The tensor of an entry is named by the key  *)
(* it was stored under in the input.                                       *)
(***************************************************************************)
ignore_keys == {"torch_mel_spectrogram_style_encoder", "torch_mel_spectrogram_dvae", "dvae"}

CkptKeys ==
    (SeqsUpTo({"xtts", "dvae", "gpt"}, 3) \ {<<>>})
        \cup {<<"torch_mel_spectrogram_dvae", "w">>,
              <<"xtts", "torch_mel_spectrogram_style_encoder", "w">>}

\* key.startswith("xtts.")
StartsWithXtts(key) == Len(key) >= 2 /\ key[1] = "xtts"

\* key.replace("xtts.", ""): every occurrence of "xtts." goes, that is every
\* component "xtts" that is followed by a dot
ReplaceXtts(key) == SelectSeq([i \in 1..Len(key) |-> <<key[i], i = Len(key)>>],
                              LAMBDA c : c[1] # "xtts" \/ c[2])

StripComponents(cs) == [i \in 1..Len(cs) |-> cs[i][1]]

DictKeys(d) == [i \in 1..Len(d) |-> d[i].key]
DictHas(d, key) == \E i \in 1..Len(d) : d[i].key = key
DictGet(d, key) == d[CHOOSE i \in 1..Len(d) : d[i].key = key].value
\* d[key] = value
DictSet(d, key, value) ==
    IF DictHas(d, key)
    THEN [i \in 1..Len(d) |-> IF d[i].key = key THEN [key |-> key, value |-> value] ELSE d[i]]
    ELSE Append(d, [key |-> key, value |-> value])
\* del d[key], for a key that is present
DictDel(d, key) == SelectSeq(d, LAMBDA en : en.key # key)

\* one turn of the loop over list(checkpoint.keys())
CompatStep(st, key) ==
    IF st.status # "ok" THEN st
    ELSE LET renamed == StartsWithXtts(key)
             new_key == StripComponents(ReplaceXtts(key))
             d1      == IF renamed
                        THEN DictDel(DictSet(st.checkpoint, new_key, DictGet(st.checkpoint, key)), key)
                        ELSE st.checkpoint
             key1    == IF renamed THEN new_key ELSE key
         IN  IF renamed /\ ~DictHas(st.checkpoint, key)
             THEN [status |-> "KeyError", checkpoint |-> st.checkpoint]
             ELSE IF key1[1] \in ignore_keys
             THEN IF DictHas(d1, key1)
                  THEN [status |-> "ok", checkpoint |-> DictDel(d1, key1)]
                  ELSE [status |-> "KeyError", checkpoint |-> d1]
             ELSE [status |-> "ok", checkpoint |-> d1]

RECURSIVE CompatLoop(_, _)
CompatLoop(st, keys) ==
    IF keys = <<>> THEN st ELSE CompatLoop(CompatStep(st, Head(keys)), Tail(keys))

get_compatible_checkpoint_state_dict(checkpoint) ==
    CompatLoop([status |-> "ok", checkpoint |-> checkpoint], DictKeys(checkpoint))

\* the dicts torch.load can give: up to n entries, keys distinct
RECURSIVE CkptsOfLen(_)
CkptsOfLen(n) ==
    IF n = 0 THEN {<<>>}
    ELSE {Append(d, [key |-> k, value |-> k]) :
             d \in CkptsOfLen(n - 1), k \in CkptKeys}

(***************************************************************************)
(* Xtts.load_checkpoint, on a model fresh from __init__ (tokenizer without *)
(* a vocabulary, gpt None unless args.gpt_number_text_tokens is set).      *)
(* The gpt is "none", "plain" (GPT as constructed) or "inference" (after   *)
(* init_gpt_for_inference, which adds the inference-only parameters).      *)
(***************************************************************************)
CheckpointDir == "dir"
\* os.path.join(checkpoint_dir, name)
PathJoin(dir, name) == <<dir, name>>

CkptPaths == {PathJoin(CheckpointDir, "model.pth"), <<"other", "model.pth">>}
VocabPaths == {PathJoin(CheckpointDir, "vocab.json"), <<"other", "vocab.json">>}
NoPath == <<>>

\* the state dicts on disk: "v1" holds the init_gpt_for_inference keys, "v1.1"
\* does not, "mismatch" holds a tensor of the wrong shape
CkptKinds == {"v1", "v1.1", "mismatch"}

\* GPT.init_gpt_for_inference
InitGptForInference(gpt) == IF gpt = "none" THEN "AttributeError" ELSE "inference"

\* self.load_state_dict(checkpoint, strict=strict) does not raise
LoadStateDictOk(kind, gpt, strict) ==
    /\ kind # "mismatch"
    /\ strict => \/ kind = "v1" /\ gpt = "inference"
                 \/ kind = "v1.1" /\ gpt = "plain"

LoadDone(status, log, tokenizer, gpt) ==
    [status |-> status, calls |-> log, tokenizer |-> tokenizer, gpt |-> gpt]

\* lines 838-841
LoadEvalTail(eval, log, tokenizer, gpt) ==
    IF ~eval THEN LoadDone("ok", log, tokenizer, gpt)
    ELSE IF gpt = "none"
    THEN LoadDone("AttributeError", log \o <<"hifigan_decoder.eval">>, tokenizer, gpt)
    ELSE LoadDone("ok", log \o <<"hifigan_decoder.eval", "init_gpt_for_inference", "gpt.eval">>,
                  tokenizer, InitGptForInference(gpt))

\* lines 833-836: the except branch
LoadRetry(kind, eval, strict, log, tokenizer, gpt) ==
    IF eval /\ gpt = "none"
    THEN LoadDone("AttributeError", log, tokenizer, gpt)
    ELSE LET gpt1 == IF eval THEN InitGptForInference(gpt) ELSE gpt
             log1 == (IF eval THEN log \o <<"init_gpt_for_inference">> ELSE log)
                        \o <<"load_state_dict">>
         IN  IF LoadStateDictOk(kind, gpt1, strict)
             THEN LoadEvalTail(eval, log1, tokenizer, gpt1)
             ELSE LoadDone("RuntimeError", log1, tokenizer, gpt1)

load_checkpoint(files, kind, tokens_configured, checkpoint_path, vocab_path_arg, eval, strict) ==
    LET model_path == IF checkpoint_path # NoPath THEN checkpoint_path
                      ELSE PathJoin(CheckpointDir, "model.pth")
        vocab_path == IF vocab_path_arg # NoPath THEN vocab_path_arg
                      ELSE PathJoin(CheckpointDir, "vocab.json")
        tokenizer  == vocab_path \in files
        log0       == (IF tokenizer THEN <<"VoiceBpeTokenizer">> ELSE <<>>) \o <<"init_models">>
        gpt        == IF tokenizer \/ tokens_configured THEN "plain" ELSE "none"
        log1       == log0 \o <<"load_fsspec">>
        log2       == log1 \o <<"load_state_dict">>
    IN  IF model_path \notin files
        THEN LoadDone("FileNotFoundError", log1, tokenizer, gpt)
        ELSE IF LoadStateDictOk(kind, gpt, strict)
        THEN LoadEvalTail(eval, log2, tokenizer, gpt)
        ELSE LoadRetry(kind, eval, strict, log2, tokenizer, gpt)

(***************************************************************************)
(* Xtts.inference.                                                         *)
(***************************************************************************)
Codes == {silence_token, 7}
CodeSeqs == SeqsUpTo(Codes, MaxCodes)

\* What tokenizer.encode(text, lang=language) can do: return n token ids, or
\* (the tokenizer has its own language table) reject a tag it does not know.
TextLens == {1, gpt_max_text_tokens - 1, gpt_max_text_tokens, gpt_max_text_tokens + 1}
TokenizerOutcomes(language) ==
    [raised : {FALSE}, n : TextLens]
        \cup (IF language \in Languages THEN {} ELSE {[raised |-> TRUE, n |-> 0]})

\* assert language in self.config.languages
LanguageOk(language) == language \in Languages

\* assert text_tokens.shape[-1] < self.args.gpt_max_text_tokens
TextLenOk_AtMost(n) == n <= gpt_max_text_tokens

TextLenOk(n) == n < gpt_max_text_tokens

\* self.gpt(..., return_latent=True): one latent per code, here the frame number.
GptLatents(gpt_codes) == [i \in 1..Len(gpt_codes) |-> i - 1]

\* the test that ends the silence scan
RunExceeds_AtLeast(ctokens) == ctokens >= 8

RunExceeds(ctokens) == ctokens > 8

\* the scan's counter after looking at one code
CountSilence(code, ctokens) ==
    IF code = silence_token THEN ctokens + 1 ELSE 0

\* for k in range(gpt_codes.shape[-1]): ... ; k is 0-based, gpt_codes[0, k] is
\* gpt_codes[k + 1] here.  The result says whether the loop hit its break and at which k.
RECURSIVE SilenceScan(_, _, _)
SilenceScan(gpt_codes, k, ctokens) ==
    IF k >= Len(gpt_codes) THEN [hit |-> FALSE, k |-> k]
    ELSE LET c == CountSilence(gpt_codes[k + 1], ctokens)
         IN  IF RunExceeds(c) THEN [hit |-> TRUE, k |-> k]
             ELSE SilenceScan(gpt_codes, k + 1, c)

SilenceTruncate(gpt_codes, gpt_latents) ==
    LET scan == SilenceScan(gpt_codes, 0, 0)
    IN  IF scan.hit THEN PySliceTo(gpt_latents, scan.k) ELSE gpt_latents

\* self.hifigan_decoder(gpt_latents, g=speaker_embedding), as the call it is
hifigan_decoder(gpt_latents, g) == [backend |-> "hifigan", latents |-> gpt_latents, g |-> g]
NoWav == [backend |-> "none", latents |-> <<>>, g |-> 0]

Raised(status, log) ==
    [status |-> status, calls |-> log, wav |-> NoWav, gpt_codes |-> <<>>,
     gpt_latents |-> <<>>, speaker_embedding |-> 0]

\* inference(text, language, gpt_cond_latent, speaker_embedding, decoder=...):
\* tok is what the tokenizer does, gpt_codes what gpt.generate returns.
inference(language, tok, speaker_embedding, decoder, gpt_codes, log) ==
    IF tok.raised THEN Raised("TokenizerError", log \o <<"encode">>)
    ELSE IF ~TextLenOk(tok.n) THEN Raised("AssertionError", log \o <<"encode">>)
    ELSE LET gpt_latents == SilenceTruncate(gpt_codes, GptLatents(gpt_codes))
         IN  [status |-> "ok",
              calls |-> log \o <<"encode", "generate", "gpt", "hifigan_decoder">>,
              wav |-> hifigan_decoder(gpt_latents, speaker_embedding),
              gpt_codes |-> gpt_codes,
              gpt_latents |-> gpt_latents,
              speaker_embedding |-> speaker_embedding]

full_inference(ref_audio_path, language, tok, decoder, gpt_codes, log) ==
    LET cond == get_conditioning_latents(ref_audio_path, 6, 10)
    IN  IF cond.status # "ok"
        THEN Raised(cond.status, log \o <<"get_conditioning_latents">>)
        ELSE inference(language, tok, cond.speaker_embedding, decoder, gpt_codes,
                       log \o <<"get_conditioning_latents">>)

inference_with_config(ref_audio_path, language, tok, decoder, gpt_codes) ==
    IF ~LanguageOk(language) THEN Raised("AssertionError", <<>>)
    ELSE full_inference(ref_audio_path, language, tok, decoder, gpt_codes, <<>>)

(***************************************************************************)
(* Xtts.inference with gpt_batch_size > 1: gpt.generate returns            *)
(* num_return_sequences rows of codes of one length, and gpt gives one row *)
(* of latents per row of codes.                                            *)
(***************************************************************************)
\* a row of MaxCodes codes: lead other codes, then run silence codes, then other codes
CodeRow(lead, run) ==
    [i \in 1..MaxCodes |-> IF i > lead /\ i <= lead + run THEN silence_token ELSE 7]
BatchRows == {CodeRow(lead, run) : lead \in 0..3, run \in {0, 8, 9}}
CodeBatches == UNION {[1..b -> BatchRows] : b \in 1..MaxBatch}

\* the row the scan reads: gpt_codes[0, k]
ScanRow_Last(gpt_codes) == gpt_codes[Len(gpt_codes)]

ScanRow(gpt_codes) == gpt_codes[1]

\* gpt_latents = gpt_latents[:, :k]: every row is cut at k
SilenceTruncateBatch(gpt_codes, gpt_latents) ==
    LET scan == SilenceScan(ScanRow(gpt_codes), 0, 0)
    IN  IF scan.hit
        THEN [b \in 1..Len(gpt_latents) |-> PySliceTo(gpt_latents[b], scan.k)]
        ELSE gpt_latents

GptLatentsBatch(gpt_codes) == [b \in 1..Len(gpt_codes) |-> GptLatents(gpt_codes[b])]

inference_batch(language, tok, speaker_embedding, gpt_codes, log) ==
    IF tok.raised THEN Raised("TokenizerError", log \o <<"encode">>)
    ELSE IF ~TextLenOk(tok.n) THEN Raised("AssertionError", log \o <<"encode">>)
    ELSE LET gpt_latents == SilenceTruncateBatch(gpt_codes, GptLatentsBatch(gpt_codes))
         IN  [status |-> "ok",
              calls |-> log \o <<"encode", "generate", "gpt", "hifigan_decoder">>,
              wav |-> hifigan_decoder(gpt_latents, speaker_embedding),
              gpt_codes |-> gpt_codes,
              gpt_latents |-> gpt_latents,
              speaker_embedding |-> speaker_embedding]

(***************************************************************************)
(* Streaming: the vocoder, tensor arithmetic, handle_chunks.               *)
(***************************************************************************)
LatentVals == {1, 2}

\* Waveform samples are multiples of WavScale, so that a sample times a
\* linspace weight k/(overlap_len - 1) is again an integer.
WavScale == Factorial(MaxOverlap)

\* self.hifigan_decoder(gpt_latents, g=...).squeeze(): SamplesPerLatent samples per
\* latent.  Sample j belongs to latent p; with ctx it also depends on latent p + 1
\* when there is one (the vocoder's receptive field), so that decoding a longer
\* latent sequence changes the last samples of the shorter decode.
HifiganDecode(latents, ctx) ==
    [j \in 1..(Len(latents) * SamplesPerLatent) |->
        LET p == ((j - 1) \div SamplesPerLatent) + 1
        IN  WavScale * (10 * latents[p] + ((j - 1) % SamplesPerLatent)
                        + (IF ctx /\ p < Len(latents) THEN 100 * latents[p + 1] ELSE 0))]

\* torch.linspace(0.0, 1.0, n) and torch.linspace(1.0, 0.0, n) as numerators over
\* LinDen(n); a linspace of one step is its start value.
LinDen(n) == IF n > 1 THEN n - 1 ELSE 1

FadeIn_Reversed(n) == [i \in 1..n |-> IF n = 1 THEN 1 ELSE n - i]

FadeIn(n) == [i \in 1..n |-> IF n = 1 THEN 0 ELSE i - 1]

FadeOut(n) == [i \in 1..n |-> IF n = 1 THEN 1 ELSE n - i]

\* Shape of a broadcast of two 1-D tensors, -1 when the sizes do not match.
BroadcastLen(a, b) ==
    IF a = b THEN a ELSE IF a = 1 THEN b ELSE IF b = 1 THEN a ELSE -1

\* Whether a 1-D tensor of size a can be written into (or added in place to) one of size m.
FitsInto(a, m) == a = m \/ a = 1

At(t, i) == IF Len(t) = 1 THEN t[1] ELSE t[i]

\* x * w for a waveform x and linspace weights w (numerators over den)
TensorMul(x, w, den) ==
    LET L == BroadcastLen(Len(x), Len(w))
    IN  IF L = -1 THEN [err |-> TRUE, val |-> <<>>]
        ELSE [err |-> FALSE, val |-> [i \in 1..L |-> (At(x, i) * At(w, i)) \div den]]

ChunkError == [err |-> TRUE, wav_chunk |-> <<>>, raw |-> <<>>,
               wav_gen_prev |-> None, wav_overlap |-> None]

\* handle_chunks(wav_gen, wav_gen_prev, wav_overlap, overlap_len).  wav_chunk is a
\* view of wav_gen, so the blend is written into wav_gen as well.
handle_chunks(wav_gen, prev, overlap, overlap_len) ==
    LET L == Len(wav_gen)
        start == IF prev.some THEN Len(prev.val) - overlap_len ELSE 0
        raw == PySlice(wav_gen, start, -overlap_len)
        lo == ClampIndex(start, L)
        head == PySliceTo(raw, overlap_len)
        m == Len(head)
        crossfade_wav == TensorMul(head, FadeIn(overlap_len), LinDen(overlap_len))
        faded == IF overlap.some
                 THEN TensorMul(overlap.val, FadeOut(overlap_len), LinDen(overlap_len))
                 ELSE [err |-> FALSE, val |-> <<>>]
        blended == [i \in 1..m |-> At(faded.val, i) + At(crossfade_wav.val, i)]
        wav_chunk == [i \in 1..Len(raw) |-> IF i <= m THEN blended[i] ELSE raw[i]]
        written == [j \in 1..L |-> IF j > lo /\ j <= lo + m THEN blended[j - lo]
                                   ELSE wav_gen[j]]
    IN  IF ~overlap.some
        THEN [err |-> FALSE, wav_chunk |-> raw, raw |-> raw,
              wav_gen_prev |-> Some(wav_gen),
              wav_overlap |-> Some(PySliceFrom(wav_gen, -overlap_len))]
        ELSE IF \/ crossfade_wav.err
                \/ faded.err
                \/ ~FitsInto(Len(faded.val), m)
                \/ ~FitsInto(Len(crossfade_wav.val), m)
        THEN ChunkError
        ELSE [err |-> FALSE, wav_chunk |-> wav_chunk, raw |-> raw,
              wav_gen_prev |-> Some(written),
              wav_overlap |-> Some(PySliceFrom(written, -overlap_len))]

\* if is_end or (stream_chunk_size > 0 and len(last_tokens) >= stream_chunk_size)
ShouldEmit(end, stream_chunk_size, n_last) ==
    end \/ (stream_chunk_size > 0 /\ n_last >= stream_chunk_size)

(***************************************************************************)
(* Initial states and the calls.                                           *)
(***************************************************************************)
NoRet == Raised("none", <<>>)
NoArgs == [entry |-> "none"]

IdleStream ==
    /\ gen_left = 0
    /\ vocoder_ctx = FALSE
    /\ last_tokens = <<>>
    /\ all_latents = <<>>
    /\ wav_gen_prev = None
    /\ wav_overlap = None
    /\ is_end = FALSE
    /\ chunks = <<>>
    /\ raws = <<>>
    /\ decodes = <<>>
    /\ emit_at = <<>>

Init ==
    /\ pc = "idle"
    /\ args = NoArgs
    /\ calls = <<>>
    /\ ret = NoRet
    /\ IdleStream

Finish(r) ==
    /\ pc' = (IF r.status = "ok" THEN "returned" ELSE "raised")
    /\ calls' = r.calls
    /\ ret' = r

RefChoices == {<<[spk |-> 1, secs |-> 2, sr |-> gpt_sample_rate]>>, <<>>}

CallGetConditioningLatents ==
    /\ pc = "idle"
    /\ \E audio_path \in SeqsUpTo(Clips, MaxRefs), gpt_cond_len \in 1..MaxClipSecs,
          max_ref_length \in 1..MaxClipSecs :
          LET r == get_conditioning_latents(audio_path, gpt_cond_len, max_ref_length)
          IN  /\ args' = [entry |-> "get_conditioning_latents", audio_path |-> audio_path,
                          gpt_cond_len |-> gpt_cond_len, max_ref_length |-> max_ref_length]
              /\ pc' = (IF r.status = "ok" THEN "returned" ELSE "raised")
              /\ calls' = <<>>
              /\ ret' = r
    /\ UNCHANGED streamVars

CallGetConditioningLatentsStr ==
    /\ pc = "idle"
    /\ \E audio_path \in PathStrings, gpt_cond_len \in {1, 6}, max_ref_length \in {1, 10} :
       \E files \in SUBSET ({audio_path} \cup {<<c>> : c \in PathChars}) :
          LET r == get_conditioning_latents_str(audio_path, files, gpt_cond_len, max_ref_length)
          IN  /\ args' = [entry |-> "get_conditioning_latents_str", audio_path |-> audio_path,
                          files |-> files, gpt_cond_len |-> gpt_cond_len,
                          max_ref_length |-> max_ref_length]
              /\ pc' = (IF r.status = "ok" THEN "returned" ELSE "raised")
              /\ calls' = <<>>
              /\ ret' = r
    /\ UNCHANGED streamVars

CallInference ==
    /\ pc = "idle"
    /\ \E language \in LanguageTags, decoder \in {"hifigan", "diffusion"},
          speaker_embedding \in {EmbScale * 12}, gpt_codes \in CodeSeqs :
       \E tok \in TokenizerOutcomes(language) :
          LET r == inference(language, tok, speaker_embedding, decoder, gpt_codes, <<>>)
          IN  /\ args' = [entry |-> "inference", language |-> language, tok |-> tok,
                          decoder |-> decoder, ref_audio_path |-> <<>>]
              /\ Finish(r)
    /\ UNCHANGED streamVars

CallFullInference ==
    /\ pc = "idle"
    /\ \E language \in LanguageTags, decoder \in {"hifigan", "diffusion"},
          ref_audio_path \in RefChoices, gpt_codes \in CodeSeqs :
       \E tok \in TokenizerOutcomes(language) :
          LET r == full_inference(ref_audio_path, language, tok, decoder, gpt_codes, <<>>)
          IN  /\ args' = [entry |-> "full_inference", language |-> language, tok |-> tok,
                          decoder |-> decoder, ref_audio_path |-> ref_audio_path]
              /\ Finish(r)
    /\ UNCHANGED streamVars

CallInferenceWithConfig ==
    /\ pc = "idle"
    /\ \E language \in LanguageTags, decoder \in {"hifigan", "diffusion"},
          ref_audio_path \in RefChoices, gpt_codes \in CodeSeqs :
       \E tok \in TokenizerOutcomes(language) :
          LET r == inference_with_config(ref_audio_path, language, tok, decoder, gpt_codes)
          IN  /\ args' = [entry |-> "inference_with_config", language |-> language,
                          tok |-> tok, decoder |-> decoder, ref_audio_path |-> ref_audio_path]
              /\ Finish(r)
    /\ UNCHANGED streamVars

CallPadOrTruncate ==
    /\ pc = "idle"
    /\ \E t \in SeqsUpTo(SampleVals, MaxPadLen), length \in 0..(MaxPadLen + 1) :
          /\ args' = [entry |-> "pad_or_truncate", t |-> t, length |-> length]
          /\ ret' = [status |-> "ok", out |-> pad_or_truncate(t, length)]
    /\ pc' = "returned"
    /\ calls' = <<>>
    /\ UNCHANGED streamVars

CallGetDiffusionCondLatents ==
    /\ pc = "idle"
    /\ \E audio \in SeqsUpTo(SampleVals, MaxPadLen), chunk_size \in 1..MaxPadLen,
          sr \in {diffusion_sample_rate \div 2, diffusion_sample_rate,
                  2 * diffusion_sample_rate} :
          /\ args' = [entry |-> "get_diffusion_cond_latents", audio |-> audio, sr |-> sr,
                      chunk_size |-> chunk_size]
          /\ Finish(get_diffusion_cond_latents(audio, sr, chunk_size))
    /\ UNCHANGED streamVars

NextPad == CallPadOrTruncate \/ CallGetDiffusionCondLatents
SpecPad == Init /\ [][NextPad]_vars

CallGetCompatibleCheckpointStateDict ==
    /\ pc = "idle"
    /\ \E n \in 0..MaxCkptKeys :
          \E checkpoint \in {d \in CkptsOfLen(n) :
                                \A i, j \in 1..Len(d) : d[i].key = d[j].key => i = j} :
             LET r == get_compatible_checkpoint_state_dict(checkpoint)
             IN  /\ args' = [entry |-> "get_compatible_checkpoint_state_dict",
                             checkpoint |-> checkpoint]
                 /\ ret' = r
                 /\ pc' = IF r.status = "ok" THEN "returned" ELSE "raised"
    /\ calls' = <<"load_fsspec">>
    /\ UNCHANGED streamVars

NextCkpt == CallGetCompatibleCheckpointStateDict
SpecCkpt == Init /\ [][NextCkpt]_vars

CallLoadCheckpoint ==
    /\ pc = "idle"
    /\ \E files \in SUBSET (CkptPaths \cup VocabPaths), kind \in CkptKinds,
          tokens_configured \in BOOLEAN,
          checkpoint_path \in {NoPath, <<"other", "model.pth">>},
          vocab_path \in {NoPath, <<"other", "vocab.json">>},
          eval \in BOOLEAN, strict \in BOOLEAN :
          /\ args' = [entry |-> "load_checkpoint", files |-> files, kind |-> kind,
                      tokens_configured |-> tokens_configured,
                      checkpoint_path |-> checkpoint_path, vocab_path |-> vocab_path,
                      eval |-> eval, strict |-> strict]
          /\ Finish(load_checkpoint(files, kind, tokens_configured, checkpoint_path,
                                    vocab_path, eval, strict))
    /\ UNCHANGED streamVars

NextLoad == CallLoadCheckpoint
SpecLoad == Init /\ [][NextLoad]_vars

CallInferenceBatch ==
    /\ pc = "idle"
    /\ \E gpt_codes \in CodeBatches, n \in {1, gpt_max_text_tokens} :
          LET tok == [raised |-> FALSE, n |-> n]
              r == inference_batch("en", tok, EmbScale * 12, gpt_codes, <<>>)
          IN  /\ args' = [entry |-> "inference_batch", language |-> "en", tok |-> tok,
                          gpt_batch_size |-> Len(gpt_codes),
                          generated |-> gpt_codes]
              /\ Finish(r)
    /\ UNCHANGED streamVars

NextBatch == CallInferenceBatch
SpecBatch == Init /\ [][NextBatch]_vars

NextCond == CallGetConditioningLatents \/ CallGetConditioningLatentsStr
SpecCond == Init /\ [][NextCond]_vars

NextInfer == CallInference \/ CallFullInference \/ CallInferenceWithConfig
SpecInfer == Init /\ [][NextInfer]_vars

(***************************************************************************)
(* inference_stream.  StartStream is the generator body up to its loop;    *)
(* each later action is one turn of the while loop.                        *)
(***************************************************************************)
StartStream ==
    /\ pc = "idle"
    /\ \E language \in LanguageTags, stream_chunk_size \in -1..MaxChunkSize,
          overlap_wav_len \in 0..MaxOverlap, n \in 0..MaxGen, ctx \in BOOLEAN :
       \E tok \in TokenizerOutcomes(language) :
          /\ args' = [entry |-> "inference_stream", language |-> language, tok |-> tok,
                      stream_chunk_size |-> stream_chunk_size,
                      overlap_wav_len |-> overlap_wav_len, n |-> n]
          /\ IF tok.raised
             THEN /\ pc' = "raised"
                  /\ calls' = <<"encode">>
                  /\ ret' = Raised("TokenizerError", <<"encode">>)
                  /\ UNCHANGED <<gen_left, vocoder_ctx>>
             ELSE /\ pc' = "running"
                  /\ calls' = <<"encode", "compute_embeddings", "get_generator">>
                  /\ ret' = NoRet
                  /\ gen_left' = n
                  /\ vocoder_ctx' = ctx
    /\ last_tokens' = <<>>
    /\ all_latents' = <<>>
    /\ wav_gen_prev' = None
    /\ wav_overlap' = None
    /\ is_end' = FALSE
    /\ UNCHANGED <<chunks, raws, decodes, emit_at>>

\* The body of `if is_end or (...)`, for the lists as they are after the pull.
\* torch.cat of an empty list raises, and so can handle_chunks.  The body ends at
\* `yield wav_chunk` with the generator suspended, for the last chunk as for any other.
Emit(latents, end) ==
    LET wav_gen == HifiganDecode(latents, vocoder_ctx)
        h == handle_chunks(wav_gen, wav_gen_prev, wav_overlap, args.overlap_wav_len)
    IN  IF latents = <<>> \/ h.err
        THEN /\ pc' = "raised"
             /\ ret' = Raised("RuntimeError", calls)
             /\ calls' = IF latents = <<>> THEN calls
                         ELSE calls \o <<"hifigan_decoder">>
             /\ UNCHANGED <<wav_gen_prev, wav_overlap, chunks, raws, decodes, emit_at>>
        ELSE /\ pc' = "running"
             /\ ret' = ret
             /\ calls' = calls \o <<"hifigan_decoder">>
             /\ wav_gen_prev' = h.wav_gen_prev
             /\ wav_overlap' = h.wav_overlap
             /\ chunks' = Append(chunks, h.wav_chunk)
             /\ raws' = Append(raws, h.raw)
             /\ decodes' = Append(decodes, wav_gen)
             /\ emit_at' = Append(emit_at, [pulls |-> Len(latents), end |-> end])

\* next(gpt_generator) returns a pair
StreamPull ==
    /\ pc = "running"
    /\ ~is_end
    /\ gen_left > 0
    /\ \E latent \in LatentVals :
          LET tokens == Append(last_tokens, latent)
              latents == Append(all_latents, latent)
          IN  /\ all_latents' = latents
              /\ gen_left' = gen_left - 1
              /\ IF ShouldEmit(FALSE, args.stream_chunk_size, Len(tokens))
                 THEN /\ Emit(latents, FALSE)
                      /\ last_tokens' = (IF pc' = "raised" THEN tokens ELSE <<>>)
                 ELSE /\ last_tokens' = tokens
                      /\ UNCHANGED <<pc, ret, calls, wav_gen_prev, wav_overlap,
                                     chunks, raws, decodes, emit_at>>
    /\ UNCHANGED <<args, vocoder_ctx, is_end>>

\* next(gpt_generator) raises StopIteration
StreamExhausted ==
    /\ pc = "running"
    /\ ~is_end
    /\ gen_left = 0
    /\ is_end' = TRUE
    /\ Emit(all_latents, TRUE)
    /\ last_tokens' = (IF pc' = "raised" THEN last_tokens ELSE <<>>)
    /\ UNCHANGED <<args, gen_left, vocoder_ctx, all_latents>>

\* the next() after the last chunk: `while not is_end` ends and the generator returns
StreamReturn ==
    /\ pc = "running"
    /\ is_end
    /\ pc' = "returned"
    /\ ret' = [NoRet EXCEPT !.status = "ok"]
    /\ UNCHANGED <<args, calls, streamVars>>

NextStream == StartStream \/ StreamPull \/ StreamExhausted \/ StreamReturn
SpecStream == Init /\ [][NextStream]_vars

\* All entry points together.
Next == NextCond \/ NextInfer \/ NextStream \/ NextPad \/ NextCkpt \/ NextLoad \/ NextBatch
Spec == Init /\ [][Next]_vars

(***************************************************************************)
(* Properties.                                                             *)
(***************************************************************************)
InferCall == args.entry \in {"inference", "full_inference", "inference_with_config"}
StreamCall == args.entry = "inference_stream"
Tokenized == "encode" \in Range(calls) /\ ~args.tok.raised

\* 0-based indices k at which the nine codes gpt_codes[k-8 .. k] are all silence
NinthSilenceAt(gpt_codes) ==
    {k \in 8..(Len(gpt_codes) - 1) :
        \A j \in (k - 8)..k : gpt_codes[j + 1] = silence_token}

Least(S) == CHOOSE x \in S : \A y \in S : x <= y

\* C1: the returned latents are the latents of the codes cut to exactly k
\* positions, k the first index that completes nine consecutive codes 83,
\* whatever follows; with no such run (eight in a row included) they are returned
\* in full.
C1_SilenceTruncation ==
    (InferCall /\ pc = "returned") =>
        LET ks == NinthSilenceAt(ret.gpt_codes)
            full == [i \in 1..Len(ret.gpt_codes) |-> i - 1]
        IN  IF ks = {} THEN ret.gpt_latents = full
            ELSE /\ Len(ret.gpt_latents) = Least(ks)
                 /\ ret.gpt_latents = SubSeq(full, 1, Least(ks))

\* a run of nine starting at the second code, with a code after it: cut at k = 9
C1_Witness ==
    /\ InferCall /\ pc = "returned"
    /\ Len(ret.gpt_codes) > 10
    /\ ret.gpt_codes[11] # silence_token
    /\ ret.gpt_codes[1] # silence_token
    /\ \A j \in 2..10 : ret.gpt_codes[j] = silence_token
    /\ Len(ret.gpt_latents) = 9

\* C2: once the text is tokenized, a length of gpt_max_text_tokens or more makes
\* inference fail with an assertion error before gpt.generate and with no
\* result; a length of gpt_max_text_tokens - 1 goes on to generation.
C2_TokenLengthBoundary ==
    (InferCall /\ pc # "idle" /\ Tokenized) =>
        /\ args.tok.n >= gpt_max_text_tokens =>
              /\ pc = "raised"
              /\ ret.status = "AssertionError"
              /\ "generate" \notin Range(calls)
              /\ ret.wav = NoWav
        /\ args.tok.n = gpt_max_text_tokens - 1 => "generate" \in Range(calls)

C2_Witness ==
    /\ InferCall /\ pc = "raised" /\ Tokenized
    /\ args.tok.n = gpt_max_text_tokens
    /\ ret.status = "AssertionError"

\* C3: inference_stream fails before compute_embeddings / get_generator and
\* yields no chunk when the tokenized text has gpt_max_text_tokens ids or more.
C3_StreamTokenLengthChecked ==
    (StreamCall /\ ~args.tok.raised /\ args.tok.n >= gpt_max_text_tokens) =>
        /\ pc = "raised"
        /\ "compute_embeddings" \notin Range(calls)
        /\ "get_generator" \notin Range(calls)
        /\ chunks = <<>>

\* C4: every entry point raises when the language tag is not one of
\* config.languages, and does so before conditioning extraction and before
\* generation (whatever the tokenizer itself makes of the tag).
C4_UnsupportedLanguageRejectedFirst ==
    (pc # "idle" /\ (InferCall \/ StreamCall) /\ args.language \notin Languages) =>
        /\ pc = "raised"
        /\ "get_conditioning_latents" \notin Range(calls)
        /\ "generate" \notin Range(calls)
        /\ "get_generator" \notin Range(calls)

\* C5: the backend that synthesizes the waveform of inference is the one named
\* by the decoder argument.
C5_DecoderSelectsBackend ==
    (InferCall /\ pc = "returned") => ret.wav.backend = args.decoder

\* the generator's length and the stream's settings
StreamN == args.n
ChunkSize == args.stream_chunk_size
OverlapLen == args.overlap_wav_len
StreamEnded == StreamCall /\ "get_generator" \in Range(calls) /\ pc \in {"returned", "raised"}

\* C6: a stream whose generator yields n pairs (n at least 1 here) yields a
\* chunk at the pulls c, 2c, ... (those where c pairs have come since the last
\* chunk), one more at exhaustion and none besides: floor(n/c) + 1 chunks, or one
\* chunk when c <= 0.
C6_EmissionSchedule ==
    (StreamEnded /\ StreamN >= 1) =>
        LET full == IF ChunkSize > 0 THEN StreamN \div ChunkSize ELSE 0
        IN  /\ Len(emit_at) = full + 1
            /\ \A k \in 1..full :
                  emit_at[k] = [pulls |-> k * ChunkSize, end |-> FALSE]
            /\ emit_at[full + 1] = [pulls |-> StreamN, end |-> TRUE]

\* C7: once the generator exists the stream never raises: at exhaustion it
\* decodes, yields a last chunk and ends, also when n = 0 and when n is a
\* multiple of stream_chunk_size.
C7_StreamNeverRaises ==
    (StreamCall /\ "get_generator" \in Range(calls)) => pc # "raised"

\* C8: the first chunk is yielded as sliced; in every later chunk sample i of
\* the first overlap_len is prev_tail[i] * w_out(i) + new_head[i] * w_in(i), with
\* w_in(i) = i / (overlap_len - 1), w_out = 1 - w_in, prev_tail the last
\* overlap_len samples of the previous decode and new_head the chunk's own
\* samples; the samples past the overlap are the decoder's.
C8_CrossfadeBlend ==
    StreamCall =>
        \A k \in 1..Len(chunks) :
            /\ Len(chunks[k]) = Len(raws[k])
            /\ k = 1 => chunks[k] = raws[k]
            /\ k > 1 =>
                  \A i \in 1..Len(chunks[k]) :
                      LET den == IF OverlapLen > 1 THEN OverlapLen - 1 ELSE 1
                          w_in == IF OverlapLen > 1 THEN i - 1 ELSE 0
                          prev == decodes[k - 1]
                      IN  IF i <= OverlapLen
                          THEN den * chunks[k][i] =
                                  prev[Len(prev) - OverlapLen + i] * (den - w_in)
                                  + raws[k][i] * w_in
                          ELSE chunks[k][i] = raws[k][i]

\* a later chunk, longer than the overlap, whose overlap the blend has changed
C8_Witness ==
    /\ StreamCall
    /\ OverlapLen >= 3
    /\ \E k \in 2..Len(chunks) :
          /\ Len(chunks[k]) > OverlapLen
          /\ \E i \in 2..(OverlapLen - 1) : chunks[k][i] # raws[k][i]

\* samples of the concatenation that lie in the first overlap_len of a chunk
\* after the first
RECURSIVE CrossfadeIndices(_, _)
CrossfadeIndices(k, offset) ==
    IF k > Len(chunks) THEN {}
    ELSE (IF k = 1 THEN {}
          ELSE {offset + i : i \in 1..(IF Len(chunks[k]) < OverlapLen
                                       THEN Len(chunks[k]) ELSE OverlapLen)})
         \cup CrossfadeIndices(k + 1, offset + Len(chunks[k]))

\* C9: with a vocoder whose decode of a latent prefix is the prefix of the full
\* decode, the chunks of a finished stream (overlap_wav_len at least 1),
\* concatenated, span the full decode of the latents from first to last sample
\* and agree with it outside the crossfades.
C9_ConcatIsFullDecode ==
    (StreamCall /\ pc = "returned" /\ ~vocoder_ctx /\ OverlapLen >= 1) =>
        LET full == HifiganDecode(all_latents, FALSE)
            cat == Flatten(chunks)
        IN  /\ Len(cat) = Len(full)
            /\ \A i \in 1..Len(cat) :
                  i \notin CrossfadeIndices(1, 0) => cat[i] = full[i]

\* every clip of the call, cut to its own first max_ref_length seconds
CutClips ==
    [i \in 1..Len(args.audio_path) |->
        PySliceTo(LoadAudio(args.audio_path[i]),
                  SamplesToFrames(args.audio_path[i].sr * args.max_ref_length))]

\* the speaker embedding of every clip of the call, each cut to max_ref_length
ClipEmbeddings ==
    [i \in 1..Len(args.audio_path) |->
        get_speaker_embedding(CutClips[i], args.audio_path[i].sr)]

\* C10: the returned speaker embedding is the plain mean of the per-clip
\* embeddings, each clip once whatever its duration; the same clip twice gives
\* the embedding of the clip alone, and so does a single clip.
C10_SpeakerEmbeddingMean ==
    (args.entry = "get_conditioning_latents" /\ pc = "returned") =>
        LET paths == args.audio_path
            n == Len(paths)
        IN  /\ n * ret.speaker_embedding = SumSeq(ClipEmbeddings)
            /\ n = 1 => ret.speaker_embedding = ClipEmbeddings[1]
            /\ (n = 2 /\ paths[1] = paths[2]) => ret.speaker_embedding = ClipEmbeddings[1]

\* two clips of different speakers and durations, so a weighted mean would differ
C10_Witness ==
    /\ args.entry = "get_conditioning_latents" /\ pc = "returned"
    /\ Len(args.audio_path) = 2
    /\ args.audio_path[1].spk # args.audio_path[2].spk
    /\ args.audio_path[1].secs < args.audio_path[2].secs
    /\ args.max_ref_length >= args.audio_path[2].secs
    /\ ClipEmbeddings[1] # ClipEmbeddings[2]

\* C11: a reference given as one path string is one audio source: exactly one
\* file is loaded, the file at that path (and the call returns when it exists).
C11_StringPathIsOneSource ==
    (args.entry = "get_conditioning_latents_str" /\ args.audio_path \in args.files) =>
        /\ pc = "returned"
        /\ ret.loaded = <<args.audio_path>>

\* what the claim says of one tensor t and its result out
PaddedOrCut(t, length, out) ==
    /\ Len(out) = length
    /\ \A i \in 1..length : out[i] = (IF i <= Len(t) THEN t[i] ELSE 0)

\* C12: pad_or_truncate(t, length) has exactly length samples: the first
\* min(len(t), length) are those of t in order and the rest are zeros (so t is
\* returned unchanged when it has that length); every chunk that
\* get_diffusion_cond_latents makes of the audio at 24 kHz, the last partial one
\* included, has exactly the chunk size.
C12_PadOrTruncate ==
    /\ (args.entry = "pad_or_truncate" /\ pc = "returned") =>
          PaddedOrCut(args.t, args.length, ret.out)
    /\ (args.entry = "get_diffusion_cond_latents" /\ pc = "raised") =>
          LET audio_24k == Resample(args.audio, args.sr, diffusion_sample_rate)
              conds == ret.diffusion_conds
              size == args.chunk_size
          IN  /\ Len(conds) * size >= Len(audio_24k)
              /\ (Len(conds) - 1) * size < Len(audio_24k) \/ audio_24k = <<>>
              /\ Len(calls) = Len(conds)
              /\ \A c \in 1..Len(conds) :
                    PaddedOrCut(SubSeq(audio_24k, (c - 1) * size + 1,
                                       IF c * size < Len(audio_24k)
                                       THEN c * size ELSE Len(audio_24k)),
                                size, conds[c])

\* a tensor longer than length, cut to its first samples, which differ from its last
C12_Witness ==
    /\ args.entry = "pad_or_truncate" /\ pc = "returned"
    /\ Len(args.t) > args.length
    /\ args.length >= 2
    /\ args.t[1] # args.t[Len(args.t)]
    /\ ret.out = SubSeq(args.t, 1, args.length)

\* the name the claim gives a key: only a leading "xtts." is removed
StripLeadingXtts(key) == IF StartsWithXtts(key) THEN Tail(key) ELSE key

\* C13: get_compatible_checkpoint_state_dict completes for every mapping; an
\* input key whose name without its leading "xtts." starts with an ignored
\* component is absent from the result, and every other input key is in the
\* result under that name with its own tensor (when no other input key has the
\* same resulting name), and the result holds nothing else.
C13_PureKeyTransformation ==
    args.entry = "get_compatible_checkpoint_state_dict" =>
        /\ pc = "returned"
        /\ \A i \in 1..Len(args.checkpoint) :
              LET key  == args.checkpoint[i].key
                  name == StripLeadingXtts(key)
              IN  IF name[1] \in ignore_keys
                  THEN ~DictHas(ret.checkpoint, name)
                  ELSE (\A j \in 1..Len(args.checkpoint) :
                           StripLeadingXtts(args.checkpoint[j].key) = name => j = i)
                       => /\ DictHas(ret.checkpoint, name)
                          /\ DictGet(ret.checkpoint, name) = args.checkpoint[i].value
        /\ \A e \in Range(ret.checkpoint) :
              \E i \in 1..Len(args.checkpoint) :
                 e.key = StripLeadingXtts(args.checkpoint[i].key)

LoadCall == args.entry = "load_checkpoint"
LoadsAt == {i \in 1..Len(calls) : calls[i] = "load_state_dict"}

\* C14: load_checkpoint attempts the state dict load at most twice; a second
\* attempt is preceded by a re-initialization of the GPT inference state made
\* after the first attempt failed, whatever the eval flag (here for a model
\* that has a GPT and a checkpoint of one of the two released layouts).
C14_ReinitBeforeRetry ==
    (LoadCall /\ args.tokens_configured /\ args.kind # "mismatch") =>
        /\ Cardinality(LoadsAt) <= 2
        /\ \A i, j \in LoadsAt :
              i < j => \E k \in (i + 1)..(j - 1) : calls[k] = "init_gpt_for_inference"

\* the path load_checkpoint reads the vocabulary / the weights from
VocabPathUsed ==
    IF args.vocab_path # NoPath THEN args.vocab_path ELSE PathJoin(CheckpointDir, "vocab.json")
ModelPathUsed ==
    IF args.checkpoint_path # NoPath THEN args.checkpoint_path
    ELSE PathJoin(CheckpointDir, "model.pth")

\* C15: load_checkpoint raises when the vocabulary file does not exist, and when
\* the weights file does not exist: such a call never completes (here for a
\* model whose configuration gives the number of text tokens).
C15_MissingFilesRaise ==
    (LoadCall /\ args.tokens_configured
        /\ (VocabPathUsed \notin args.files \/ ModelPathUsed \notin args.files)) =>
        pc = "raised"

\* C16: the style-latent path receives the first gpt_cond_len seconds, at
\* 22.05 kHz, of the concatenation in input order of the clips, every clip cut
\* to its own first max_ref_length seconds and resampled from its own sample
\* rate; the gpt_cond_len cut is made once, on the concatenation.
C16_StyleAudioIsResampledConcat ==
    (args.entry = "get_conditioning_latents" /\ pc = "returned") =>
        ret.gpt_cond_latents =
            PySliceTo(Flatten([i \in 1..Len(CutClips) |->
                                  Resample(CutClips[i], args.audio_path[i].sr, gpt_sample_rate)]),
                      SamplesToFrames(gpt_sample_rate * args.gpt_cond_len))

\* C17: at every emission the vocoder decodes all the latents pulled since the
\* start of the stream, and the k-th chunk (before the crossfade is blended
\* into its head) is the samples of that decode from index
\* (previous decode length - overlap_wav_len), 0 for the first chunk, up to
\* (current decode length - overlap_wav_len).
C17_ChunksAreCumulativeSlices ==
    StreamCall =>
        \A k \in 1..Len(raws) :
            LET lo == IF k = 1 THEN 0 ELSE Len(decodes[k - 1]) - OverlapLen
                hi == Len(decodes[k]) - OverlapLen
            IN  /\ decodes[k] = HifiganDecode(SubSeq(all_latents, 1, emit_at[k].pulls),
                                              vocoder_ctx)
                /\ k > 1 => emit_at[k - 1].pulls <= emit_at[k].pulls
                /\ (0 <= lo /\ lo <= hi) => raws[k] = SubSeq(decodes[k], lo + 1, hi)

\* C18: with a batch of code rows, the cut point is the first index that
\* completes nine consecutive codes 83 in row 0, and every row's latents are cut
\* to that length; with no such run in row 0 nothing is cut, whatever runs the
\* other rows hold.
C18_BatchCutFromRowZero ==
    (args.entry = "inference_batch" /\ pc = "returned") =>
        LET ks == NinthSilenceAt(ret.gpt_codes[1])
            full == [b \in 1..Len(ret.gpt_codes) |->
                        [i \in 1..Len(ret.gpt_codes[b]) |-> i - 1]]
        IN  /\ Len(ret.gpt_latents) = Len(ret.gpt_codes)
            /\ \A b \in 1..Len(ret.gpt_latents) :
                  ret.gpt_latents[b] =
                      (IF ks = {} THEN full[b] ELSE SubSeq(full[b], 1, Least(ks)))

\* two rows, a run of nine silence codes in the second row only: nothing is cut
C18_Witness ==
    /\ args.entry = "inference_batch" /\ pc = "returned"
    /\ Len(ret.gpt_codes) >= 2
    /\ NinthSilenceAt(ret.gpt_codes[1]) = {}
    /\ NinthSilenceAt(ret.gpt_codes[Len(ret.gpt_codes)]) # {}
    /\ \A b \in 1..Len(ret.gpt_latents) : Len(ret.gpt_latents[b]) = MaxCodes

====
